---- MODULE Spec2Model ----
(***************************************************************************)
(* Minimax + alpha-beta agent B23CM1046 for the 4x8 mini-chess.            *)
(*                                                                         *)
(* The agent (src/B23CM1046.py) searches a position owned by an external   *)
(* board object.  The board object and config.py are not part of the       *)
(* source tree; they are modelled from the interface contract: the board   *)
(* as an abstract game tree (a position is the sequence of moves made from *)
(* the root position), config.py as a concrete set of piece values and     *)
(* piece-square tables.                                                    *)
(***************************************************************************)
EXTENDS Integers, Sequences, FiniteSets, TLC

VARIABLES
    board,            \* board.board : the grid, board[r][c], rows and columns from 0
    white_to_move,    \* board.white_to_move
    in_check,         \* what board.is_in_check() answers for the current position
    move_log,         \* the board's undo stack: one entry per applied move
    seed,             \* identifies the game tree the board object plays in
    make_calls,       \* number of board.make_move calls since the call began
    undo_calls,       \* number of board.undo_move calls since the call began
    now,              \* reading of time.time(), in tenths of a second
    nodes_expanded,   \* self.nodes_expanded
    depth,            \* self.depth
    start_time,       \* self.start_time
    root_is_white,    \* self.root_is_white
    pc,               \* position of the running call
    root,             \* locals of get_best_move
    stack,            \* the _alphabeta frames, innermost last
    ret,              \* value returned by the last _alphabeta / evaluate_board
    result,           \* value returned by the last get_best_move
    timed_out,        \* some _out_of_time() check of this call returned True
    entry             \* board, side to move and undo stack when the call began

vars == <<board, white_to_move, in_check, move_log, seed, make_calls,
          undo_calls, now, nodes_expanded, depth, start_time, root_is_white,
          pc, root, stack, ret, result, timed_out, entry>>

position == <<board, white_to_move, in_check, move_log>>
agent    == <<nodes_expanded, depth, start_time, root_is_white>>

-----------------------------------------------------------------------------
(* Bounds of the model                                                     *)

MaxBranch == 2        \* most legal moves a position offers
MaxPly == 3           \* positions this many moves below the root offer no move
MaxDepth == 3         \* self.depth is configured in 0..MaxDepth
NumSeeds == 120       \* number of game trees
NumPositions == 4     \* number of distinct grids met in a game tree
MaxProbes == 2        \* squares varied freely in the evaluator's inputs
MaxClock == 12        \* last clock reading

-----------------------------------------------------------------------------
(* config.py                                                               *)

BOARD_WIDTH == 4
BOARD_HEIGHT == 8

EMPTY_SQUARE == "."
WHITE_PAWN == "wP"
WHITE_KNIGHT == "wN"
WHITE_BISHOP == "wB"
WHITE_KING == "wK"
BLACK_PAWN == "bP"
BLACK_KNIGHT == "bN"
BLACK_BISHOP == "bB"
BLACK_KING == "bK"
OTHER_PIECE == "??"   \* a cell value that is no key of PIECE_VALUES

PIECE_VALUES ==
    (WHITE_PAWN :> 20) @@ (WHITE_KNIGHT :> 70) @@ (WHITE_BISHOP :> 70) @@
    (WHITE_KING :> 600) @@
    (BLACK_PAWN :> -20) @@ (BLACK_KNIGHT :> -70) @@ (BLACK_BISHOP :> -70) @@
    (BLACK_KING :> -600)

\* Tables are written for white, row 0 first; PST[r + 1][c + 1] is table[r][c].
PAWN_PST ==
    << <<0, 0, 0, 0>>,     <<50, 50, 50, 50>>, <<10, 20, 20, 10>>, <<5, 10, 10, 5>>,
       <<0, 5, 5, 0>>,     <<5, -5, -5, 5>>,   <<5, 10, 10, 5>>,   <<0, 0, 0, 0>> >>
KNIGHT_PST ==
    << <<-50, -40, -40, -50>>, <<-40, -20, -20, -40>>, <<-30, 5, 5, -30>>,
       <<-30, 15, 15, -30>>,   <<-30, 10, 10, -30>>,   <<-30, 5, 5, -30>>,
       <<-40, -20, -20, -40>>, <<-50, -40, -40, -50>> >>
BISHOP_PST ==
    << <<-20, -10, -10, -20>>, <<-10, 0, 0, -10>>,  <<-10, 5, 5, -10>>,
       <<-10, 10, 10, -10>>,   <<-10, 10, 10, -10>>, <<-10, 5, 5, -10>>,
       <<-10, 5, 5, -10>>,     <<-20, -10, -10, -20>> >>
KING_PST_LATE_GAME ==
    << <<-50, -30, -30, -50>>, <<-30, -10, -10, -30>>, <<-30, 20, 20, -30>>,
       <<-30, 30, 30, -30>>,   <<-30, 30, 30, -30>>,   <<-30, 20, 20, -30>>,
       <<-30, -20, -20, -30>>, <<-50, -40, -40, -50>> >>

Rows == 0 .. (BOARD_HEIGHT - 1)
Cols == 0 .. (BOARD_WIDTH - 1)
Pieces == DOMAIN PIECE_VALUES
Cells == Pieces \cup {EMPTY_SQUARE, OTHER_PIECE}

-----------------------------------------------------------------------------
(* math.inf and the checkmate score                                        *)

inf == 1000000000
MATE == 1000000

Max(a, b) == IF a >= b THEN a ELSE b
Min(a, b) == IF a <= b THEN a ELSE b

NoMove == 0           \* None

-----------------------------------------------------------------------------
(* Helpers of the agent (lines 142-171)                                    *)

\* black pieces read the table at their own row, not at the mirrored row
PstUnmirrored(piece, r, c) ==
    CASE piece = WHITE_PAWN   -> PAWN_PST[r + 1][c + 1]
      [] piece = BLACK_PAWN   -> -PAWN_PST[r + 1][c + 1]
      [] piece = WHITE_KNIGHT -> KNIGHT_PST[r + 1][c + 1]
      [] piece = BLACK_KNIGHT -> -KNIGHT_PST[r + 1][c + 1]
      [] piece = WHITE_BISHOP -> BISHOP_PST[r + 1][c + 1]
      [] piece = BLACK_BISHOP -> -BISHOP_PST[r + 1][c + 1]
      [] piece = WHITE_KING   -> KING_PST_LATE_GAME[r + 1][c + 1]
      [] piece = BLACK_KING   -> -KING_PST_LATE_GAME[r + 1][c + 1]
      [] OTHER -> 0

\* _pst_value(piece, r, c): positive for white, negative and mirrored for black
_pst_value(piece, r, c) ==
    CASE piece = WHITE_PAWN   -> PAWN_PST[r + 1][c + 1]
      [] piece = BLACK_PAWN   -> -PAWN_PST[(BOARD_HEIGHT - 1 - r) + 1][c + 1]
      [] piece = WHITE_KNIGHT -> KNIGHT_PST[r + 1][c + 1]
      [] piece = BLACK_KNIGHT -> -KNIGHT_PST[(BOARD_HEIGHT - 1 - r) + 1][c + 1]
      [] piece = WHITE_BISHOP -> BISHOP_PST[r + 1][c + 1]
      [] piece = BLACK_BISHOP -> -BISHOP_PST[(BOARD_HEIGHT - 1 - r) + 1][c + 1]
      [] piece = WHITE_KING   -> KING_PST_LATE_GAME[r + 1][c + 1]
      [] piece = BLACK_KING   -> -KING_PST_LATE_GAME[(BOARD_HEIGHT - 1 - r) + 1][c + 1]
      [] OTHER -> 0

\* _has_king(white) on grid b
HasKingOn(b, white) ==
    LET target == IF white THEN WHITE_KING ELSE BLACK_KING
    IN  \E r \in Rows : \E c \in Cols : b[r][c] = target

\* _out_of_time()
time_budget == 12
_out_of_time == (now - start_time) >= time_budget

-----------------------------------------------------------------------------
(* evaluate_board (lines 55-87)                                            *)

\* PIECE_VALUES.get(p, 0)
PieceValueGet(p) == IF p \in DOMAIN PIECE_VALUES THEN PIECE_VALUES[p] ELSE 0

\* material counted in hundredths of its configured unit
CellScoreScaled(b, r, c) ==
    LET p == b[r][c]
    IN  IF p = EMPTY_SQUARE THEN 0
        ELSE 100 * PieceValueGet(p) + _pst_value(p, r, c)

\* one pass of the loop body at cell (r, c): what it adds to score
CellScore(b, r, c) ==
    LET p == b[r][c]
    IN  IF p = EMPTY_SQUARE THEN 0
        ELSE PieceValueGet(p) + _pst_value(p, r, c)

\* the two nested loops, cell k = r * BOARD_WIDTH + c onwards
RECURSIVE MaterialAndPst(_, _)
MaterialAndPst(b, k) ==
    IF k >= BOARD_HEIGHT * BOARD_WIDTH THEN 0
    ELSE CellScore(b, k \div BOARD_WIDTH, k % BOARD_WIDTH) + MaterialAndPst(b, k + 1)

\* the check bonus added to score before the final sign
CheckTerm(wtm, chk, riw) ==
    IF chk THEN (IF wtm = riw THEN -2 ELSE 2) ELSE 0

\* the king-capture terms
KingTerm(b) ==
    (IF ~HasKingOn(b, TRUE) THEN -300 ELSE 0) + (IF ~HasKingOn(b, FALSE) THEN 300 ELSE 0)

\* evaluate_board on grid b, side to move wtm, is_in_check() = chk, root side riw
EvalScore(b, wtm, chk, riw) ==
    LET score == MaterialAndPst(b, 0) + CheckTerm(wtm, chk, riw) + KingTerm(b)
    IN  IF riw THEN score ELSE -score


-----------------------------------------------------------------------------
(* The board object: an abstract game tree.  A position is the sequence of *)
(* moves made from the root position; what the board answers there is a    *)
(* fixed function of the tree (seed) and of that sequence.                 *)

Front(q) == SubSeq(q, 1, Len(q) - 1)
Last(q) == q[Len(q)]

RECURSIVE NodeCode(_, _)
NodeCode(s, path) ==
    IF path = <<>> THEN (s * 37 + 11) % 1009
    ELSE (NodeCode(s, Front(path)) * 31 + Last(path) * 97 + 13) % 1009

\* board.get_legal_moves() at the position: moves are 1..n, in the board's order
NodeMoves(s, path) ==
    LET h == NodeCode(s, path)
        x == h % (2 * MaxBranch + 1)
        n == IF Len(path) >= MaxPly \/ x = 0 THEN 0 ELSE ((x - 1) % MaxBranch) + 1
    IN  IF (h \div 16) % 2 = 0 THEN [k \in 1 .. n |-> k]
        ELSE [k \in 1 .. n |-> n + 1 - k]

\* board.get_game_state() at the position
NodeState(s, path) ==
    LET h == NodeCode(s, path)
        k == (h \div 4) % 4
    IN  IF NodeMoves(s, path) # <<>> THEN "normal"
        ELSE IF k = 0 THEN "checkmate"
        ELSE IF k = 1 \/ Len(path) < MaxPly THEN "stalemate"
        ELSE "normal"

\* board.is_in_check() at the position
NodeCheck(s, path) ==
    LET st == NodeState(s, path)
    IN  IF st = "checkmate" THEN TRUE
        ELSE IF st = "stalemate" THEN FALSE
        ELSE (NodeCode(s, path) \div 32) % 2 = 1

\* the grids met in a game: both kings, then one of a few changes
PoolGrid(k) ==
    [r \in Rows |-> [c \in Cols |->
        CASE <<r, c>> = <<7, 1>> -> IF k % 4 = 3 THEN EMPTY_SQUARE ELSE WHITE_KING
          [] <<r, c>> = <<0, 2>> -> BLACK_KING
          [] <<r, c>> = <<4, 1>> -> IF k % 4 = 1 THEN WHITE_PAWN ELSE EMPTY_SQUARE
          [] <<r, c>> = <<3, 2>> -> IF k % 4 = 2 THEN BLACK_KNIGHT ELSE EMPTY_SQUARE
          [] r = 6 /\ c < k \div 4 -> WHITE_PAWN
          [] OTHER -> EMPTY_SQUARE]]

\* board.board at the position
NodeGrid(s, path) == PoolGrid((NodeCode(s, path) \div 64) % NumPositions)

\* the moves applied and not undone, oldest first
Path == [k \in 1 .. Len(move_log) |-> move_log[k].mv]

get_legal_moves == NodeMoves(seed, Path)
get_game_state == NodeState(seed, Path)
is_in_check == in_check

\* board.make_move(mv): applies the move in place and flips the side to move
make_move(mv) ==
    LET to == Append(Path, mv)
    IN  /\ board' = NodeGrid(seed, to)
        /\ white_to_move' = ~white_to_move
        /\ in_check' = NodeCheck(seed, to)
        /\ move_log' = Append(move_log, [mv |-> mv, board |-> board,
                                         white_to_move |-> white_to_move,
                                         in_check |-> in_check])
        /\ make_calls' = make_calls + 1
        /\ UNCHANGED undo_calls

\* board.undo_move(): reverses the most recent make_move
undo_move ==
    LET e == Last(move_log)
    IN  /\ board' = e.board
        /\ white_to_move' = e.white_to_move
        /\ in_check' = e.in_check
        /\ move_log' = Front(move_log)
        /\ undo_calls' = undo_calls + 1
        /\ UNCHANGED make_calls

-----------------------------------------------------------------------------
(* The agent on the shared board                                           *)

_has_king(white) == HasKingOn(board, white)

evaluate_board == EvalScore(board, white_to_move, is_in_check, root_is_white)


\* locals of get_best_move; examined lists the root moves compared so far
NoRoot == [legal_moves |-> <<>>, i |-> 0, best_move |-> NoMove, best_val |-> -inf,
           alpha |-> -inf, beta |-> inf, examined |-> <<>>]

\* a fresh _alphabeta(depth, alpha, beta, maximizing) frame
Frame(d, a, b, m) ==
    [depth |-> d, alpha |-> a, beta |-> b, maximizing |-> m,
     moves |-> <<>>, i |-> 0, value |-> 0]

Top == Last(stack)

\* return v from the innermost _alphabeta frame
Return(v) ==
    /\ ret' = v
    /\ stack' = Front(stack)
    /\ pc' = "resume"

\* the counter carried over from the previous call instead of reset
KeepCount == nodes_expanded

\* line 30: the counter at the start of a call
ResetCount == 0

\* best_move left at None until a root move improves on best_val
InitialBestNone(legal_moves) == NoMove

\* the moves applied by the root loop left uncounted
CountNodeSkipRoot == IF stack = <<>> THEN nodes_expanded ELSE nodes_expanded + 1

\* the counter stepped the wrong way
CountNodeDown == nodes_expanded - 1

\* lines 46, 115 and 130: the counter after a move was applied
CountNode == nodes_expanded + 1

\* line 38: the move returned when no root move improves on best_val
InitialBest(legal_moves) == legal_moves[1]

\* a tie replaces the best move so far
ImprovesOrTies(val, best_val) == val >= best_val

\* line 49: whether val replaces the best value so far
Improves(val, best_val) == val > best_val

\* the undo skipped once the deadline has been seen to pass
UndoUnlessTimedOut ==
    IF timed_out THEN UNCHANGED <<position, make_calls, undo_calls>>
    ELSE undo_move

\* the undo left out below the root
UndoOnlyAtRoot ==
    IF stack = <<>> THEN undo_move
    ELSE UNCHANGED <<position, make_calls, undo_calls>>

\* lines 48, 119 and 134: the undo that follows every recursive call
UndoAfterCall == undo_move

\* the loop left only once alpha has passed beta
CutoffStrict(alpha, beta) == alpha > beta

\* the loop left while the window is still open by a margin
CutoffEarly(alpha, beta) == alpha + 40 >= beta

\* the cutoff test of lines 121 and 136
Cutoff(alpha, beta) == alpha >= beta

\* every evaluated position counted as an expanded node
EvalEffectCounting ==
    /\ nodes_expanded' = nodes_expanded + 1
    /\ UNCHANGED <<position, make_calls, undo_calls, depth, start_time, root_is_white>>

\* what evaluate_board writes: lines 55-87 assign only their locals
EvalEffect == UNCHANGED <<position, make_calls, undo_calls, agent>>

\* lines 96-101: the score of a checkmate node
MateScore == IF white_to_move = root_is_white THEN -MATE ELSE MATE

\* the depth test taken before the game-state test
EnterOutcomeDepthFirst(d) ==
    IF d = 0 THEN "static"
    ELSE IF get_game_state = "checkmate" THEN "mate"
    ELSE IF get_game_state = "stalemate" THEN "static"
    ELSE IF get_legal_moves = <<>> THEN "static"
    ELSE "expand"

\* lines 95-107: what _alphabeta does at a node once the deadline check passed
EnterOutcome(d) ==
    IF get_game_state = "checkmate" THEN "mate"
    ELSE IF get_game_state = "stalemate" \/ d = 0 THEN "static"
    ELSE IF get_legal_moves = <<>> THEN "static"
    ELSE "expand"

\* the loops never look at the clock, only the entry of _alphabeta does
LoopDeadlineIgnored == FALSE

\* lines 43, 112 and 127: the deadline check at the head of a loop pass
LoopDeadline == _out_of_time

\* the root moves taken in ascending order of their codes
RootOrderSorted(legal_moves) == [k \in 1 .. Len(legal_moves) |-> k]

\* line 42: the order in which the root loop takes the moves
RootOrder(legal_moves) == legal_moves

\* both branches recursing as the minimizer
ChildMinimizing(maximizing) == FALSE

\* lines 117 and 132: the maximizing flag handed to the recursive call
ChildMaximizing(maximizing) == ~maximizing

\* get_best_move, lines 28-40
GetBestMove ==
    /\ pc \in {"idle", "done"}
    /\ nodes_expanded' = ResetCount
    /\ start_time' = now
    /\ root_is_white' = white_to_move
    /\ timed_out' = FALSE
    /\ make_calls' = 0
    /\ undo_calls' = 0
    /\ entry' = [board |-> board, white_to_move |-> white_to_move,
                 in_check |-> in_check, move_log |-> move_log, path |-> Path,
                 start_time |-> now]
    /\ ret' = 0
    /\ result' = NoMove
    /\ LET legal_moves == get_legal_moves
       IN  IF legal_moves = <<>>
           THEN /\ root' = NoRoot
                /\ pc' = "done"
           ELSE /\ root' = [legal_moves |-> RootOrder(legal_moves), i |-> 1,
                            best_move |-> InitialBest(legal_moves),
                            best_val |-> -inf,
                            alpha |-> -inf, beta |-> inf, examined |-> <<>>]
                /\ pc' = "root_loop"
    /\ UNCHANGED <<position, seed, now, depth, stack>>

\* get_best_move, lines 42-47 and 53: one pass of the root loop up to the call
RootLoop ==
    /\ pc = "root_loop"
    /\ IF root.i > Len(root.legal_moves)
       THEN /\ result' = root.best_move
            /\ pc' = "done"
            /\ UNCHANGED <<position, make_calls, undo_calls, nodes_expanded,
                           stack, timed_out>>
       ELSE IF LoopDeadline
       THEN /\ timed_out' = TRUE
            /\ result' = root.best_move
            /\ pc' = "done"
            /\ UNCHANGED <<position, make_calls, undo_calls, nodes_expanded, stack>>
       ELSE /\ make_move(root.legal_moves[root.i])
            /\ nodes_expanded' = CountNode
            /\ stack' = <<Frame(depth - 1, root.alpha, root.beta, FALSE)>>
            /\ pc' = "enter"
            /\ UNCHANGED <<result, timed_out>>
    /\ UNCHANGED <<seed, now, depth, start_time, root_is_white, root, ret, entry>>

\* get_best_move, lines 48-52: the call returned val
RootResume ==
    /\ pc = "resume"
    /\ stack = <<>>
    /\ UndoAfterCall
    /\ LET val == ret
           mv == root.legal_moves[root.i]
       IN  root' = [root EXCEPT
                      !.best_val = IF Improves(val, root.best_val) THEN val ELSE @,
                      !.best_move = IF Improves(val, root.best_val) THEN mv ELSE @,
                      !.alpha = Max(root.alpha, val),
                      !.i = @ + 1,
                      !.examined = Append(@, [mv |-> mv, val |-> val,
                                              cut |-> timed_out])]
    /\ pc' = "root_loop"
    /\ UNCHANGED <<seed, now, agent, stack, ret, result, timed_out, entry>>

\* _alphabeta, lines 92-110 and 125: from entry to the start of the move loop
AlphabetaEnter ==
    /\ pc = "enter"
    /\ IF _out_of_time
       THEN /\ timed_out' = TRUE
            /\ Return(evaluate_board)
            /\ EvalEffect
       ELSE /\ UNCHANGED timed_out
            /\ IF EnterOutcome(Top.depth) = "mate"
               THEN /\ Return(MateScore)
                    /\ UNCHANGED <<position, make_calls, undo_calls, agent>>
               ELSE IF EnterOutcome(Top.depth) = "static"
               THEN /\ Return(evaluate_board)
                    /\ EvalEffect
               ELSE /\ stack' = [stack EXCEPT ![Len(stack)] =
                                   [@ EXCEPT !.moves = get_legal_moves, !.i = 1,
                                             !.value = IF Top.maximizing THEN -inf
                                                       ELSE inf]]
                    /\ pc' = "loop"
                    /\ UNCHANGED <<ret, position, make_calls, undo_calls, agent>>
    /\ UNCHANGED <<seed, now, root, result, entry>>

\* _alphabeta, lines 111-117 and 126-132: one pass of the move loop up to the call
AlphabetaLoop ==
    /\ pc = "loop"
    /\ IF Top.i > Len(Top.moves)
       THEN /\ Return(Top.value)
            /\ UNCHANGED <<position, make_calls, undo_calls, nodes_expanded, timed_out>>
       ELSE IF LoopDeadline
       THEN /\ timed_out' = TRUE
            /\ Return(Top.value)
            /\ UNCHANGED <<position, make_calls, undo_calls, nodes_expanded>>
       ELSE /\ make_move(Top.moves[Top.i])
            /\ nodes_expanded' = CountNode
            /\ stack' = Append(stack, Frame(Top.depth - 1, Top.alpha, Top.beta,
                                            ChildMaximizing(Top.maximizing)))
            /\ pc' = "enter"
            /\ UNCHANGED <<ret, timed_out>>
    /\ UNCHANGED <<seed, now, depth, start_time, root_is_white, root, result, entry>>

\* _alphabeta, lines 116-123 and 131-138: the call returned, rest of the loop body
AlphabetaResume ==
    /\ pc = "resume"
    /\ stack # <<>>
    /\ UndoAfterCall
    /\ LET f == Top
           value == IF f.maximizing THEN Max(f.value, ret) ELSE Min(f.value, ret)
           alpha == IF f.maximizing THEN Max(f.alpha, value) ELSE f.alpha
           beta == IF f.maximizing THEN f.beta ELSE Min(f.beta, value)
       IN  IF Cutoff(alpha, beta)
           THEN Return(value)
           ELSE /\ stack' = [stack EXCEPT ![Len(stack)] =
                               [@ EXCEPT !.value = value, !.alpha = alpha,
                                         !.beta = beta, !.i = f.i + 1]]
                /\ pc' = "loop"
                /\ UNCHANGED ret
    /\ UNCHANGED <<seed, now, agent, root, result, timed_out, entry>>

\* time passes: the clock advances by one budget
Tick ==
    /\ now + time_budget <= MaxClock
    /\ now' = now + time_budget
    /\ UNCHANGED <<position, seed, make_calls, undo_calls, agent, pc, root, stack,
                   ret, result, timed_out, entry>>

\* the game goes on: the caller plays the move the agent returned
PlayMove ==
    /\ pc = "done"
    /\ result # NoMove
    /\ make_move(result)
    /\ pc' = "idle"
    /\ UNCHANGED <<seed, now, agent, root, stack, ret, result, timed_out, entry>>

Init ==
    /\ seed \in 0 .. (NumSeeds - 1)
    /\ board = NodeGrid(seed, <<>>)
    /\ white_to_move \in BOOLEAN
    /\ in_check = NodeCheck(seed, <<>>)
    /\ move_log = <<>>
    /\ make_calls = 0
    /\ undo_calls = 0
    /\ now = 0
    /\ nodes_expanded = 0
    /\ depth \in 0 .. MaxDepth
    /\ start_time = 0
    /\ root_is_white = TRUE
    /\ pc = "idle"
    /\ root = NoRoot
    /\ stack = <<>>
    /\ ret = 0
    /\ result = NoMove
    /\ timed_out = FALSE
    /\ entry = [board |-> board, white_to_move |-> white_to_move,
                in_check |-> in_check, move_log |-> move_log, path |-> <<>>,
                start_time |-> 0]

Next ==
    \/ GetBestMove
    \/ RootLoop
    \/ RootResume
    \/ AlphabetaEnter
    \/ AlphabetaLoop
    \/ AlphabetaResume
    \/ Tick
    \/ PlayMove

Spec == Init /\ [][Next]_vars

-----------------------------------------------------------------------------
(* The evaluator on its own: evaluate_board applied to a drawn position    *)

\* the squares whose content is drawn freely; every other square holds bg
ProbeSquare(k) == <<(3 * k + 1) % BOARD_HEIGHT, (3 * k) % BOARD_WIDTH>>

EvalGrid(bg, probes) ==
    [r \in Rows |-> [c \in Cols |->
        IF \E k \in 1 .. MaxProbes : ProbeSquare(k) = <<r, c>>
        THEN probes[CHOOSE k \in 1 .. MaxProbes : ProbeSquare(k) = <<r, c>>]
        ELSE bg]]

InitEval ==
    /\ \E bg \in Cells : \E probes \in [1 .. MaxProbes -> Cells] :
           board = EvalGrid(bg, probes)
    /\ white_to_move \in BOOLEAN
    /\ in_check \in BOOLEAN
    /\ root_is_white \in BOOLEAN
    /\ move_log = <<>>
    /\ seed = 0
    /\ make_calls = 0
    /\ undo_calls = 0
    /\ now = 0
    /\ nodes_expanded = 0
    /\ depth = 3
    /\ start_time = 0
    /\ pc = "eval"
    /\ root = NoRoot
    /\ stack = <<>>
    /\ ret = 0
    /\ result = NoMove
    /\ timed_out = FALSE
    /\ entry = [board |-> board, white_to_move |-> white_to_move,
                in_check |-> in_check, move_log |-> move_log, path |-> <<>>,
                start_time |-> 0]

\* a call of evaluate_board
EvaluateBoard ==
    /\ pc = "eval"
    /\ ret' = evaluate_board
    /\ EvalEffect
    /\ pc' = "evaluated"
    /\ UNCHANGED <<seed, now, root, stack, result, timed_out, entry>>

NextEval == EvaluateBoard

SpecEval == InitEval /\ [][NextEval]_vars

\* the colour-mirrored counterpart of a piece and of a grid
MirrorPiece(p) ==
    CASE p = WHITE_PAWN -> BLACK_PAWN     [] p = BLACK_PAWN -> WHITE_PAWN
      [] p = WHITE_KNIGHT -> BLACK_KNIGHT [] p = BLACK_KNIGHT -> WHITE_KNIGHT
      [] p = WHITE_BISHOP -> BLACK_BISHOP [] p = BLACK_BISHOP -> WHITE_BISHOP
      [] p = WHITE_KING -> BLACK_KING     [] p = BLACK_KING -> WHITE_KING
      [] OTHER -> p

MirrorGrid(b) ==
    [r \in Rows |-> [c \in Cols |-> MirrorPiece(b[BOARD_HEIGHT - 1 - r][c])]]

Occupied(b) == {sq \in Rows \X Cols : b[sq[1]][sq[2]] # EMPTY_SQUARE}

-----------------------------------------------------------------------------
(* Unpruned depth-limited minimax over the same tree, with the terminal    *)
(* rules of _alphabeta and no deadline                                     *)

SetMax(S) == CHOOSE v \in S : \A w \in S : v >= w
SetMin(S) == CHOOSE v \in S : \A w \in S : v <= w

RECURSIVE Minimax(_, _, _, _, _)
Minimax(path, d, maximizing, wtm, riw) ==
    LET static == EvalScore(NodeGrid(seed, path), wtm, NodeCheck(seed, path), riw)
        moves == NodeMoves(seed, path)
        below == {Minimax(Append(path, moves[k]), d - 1, ~maximizing, ~wtm, riw) :
                     k \in 1 .. Len(moves)}
    IN  IF NodeState(seed, path) = "checkmate"
        THEN (IF wtm = riw THEN -MATE ELSE MATE)
        ELSE IF NodeState(seed, path) = "stalemate" \/ d = 0 THEN static
        ELSE IF moves = <<>> THEN static
        ELSE IF maximizing THEN SetMax(below) ELSE SetMin(below)

\* the minimax value of the root move mv of the running (or last) call
RootMoveValue(mv) ==
    Minimax(Append(entry.path, mv), depth - 1, FALSE, ~entry.white_to_move,
            entry.white_to_move)

\* the first root move, in the generator's order, of maximal minimax value
MinimaxMove ==
    LET legal == NodeMoves(seed, entry.path)
        best == SetMax({RootMoveValue(legal[k]) : k \in 1 .. Len(legal)})
        first == CHOOSE k \in 1 .. Len(legal) :
                    /\ RootMoveValue(legal[k]) = best
                    /\ \A j \in 1 .. (k - 1) : RootMoveValue(legal[j]) # best
    IN  legal[first]

\* the number of moves an unpruned search of the subtree would apply
RECURSIVE MinimaxNodes(_, _)
MinimaxNodes(path, d) ==
    LET moves == NodeMoves(seed, path)
        RECURSIVE Sum(_)
        Sum(k) == IF k > Len(moves) THEN 0
                  ELSE 1 + MinimaxNodes(Append(path, moves[k]), d - 1) + Sum(k + 1)
    IN  IF NodeState(seed, path) # "normal" \/ d = 0 THEN 0 ELSE Sum(1)

\* the list get_legal_moves() returned at the start of the running (or last) call
EntryMoves == NodeMoves(seed, entry.path)

-----------------------------------------------------------------------------
(* Claims C1 - C10                                                         *)

\* C1: whenever get_best_move returns from a position with a legal move, at
\* whatever point the deadline expired, the returned move is an element of the
\* list get_legal_moves() returned at the start of the call.
C1_ReturnedMoveIsLegal ==
    (pc = "done" /\ EntryMoves # <<>>) =>
        \E k \in 1 .. Len(EntryMoves) : EntryMoves[k] = result

\* the deadline expired before the first root move was applied
C1_Witness ==
    pc = "done" /\ timed_out /\ make_calls = 0 /\ EntryMoves # <<>> /\ result # NoMove

\* C2: when get_best_move has returned, every cell of the board, the side to
\* move, the check status and the undo stack are what they were when the call
\* began, and as many undo_move calls were issued as make_move calls.
C2_PositionRestored ==
    pc = "done" =>
        /\ board = entry.board
        /\ white_to_move = entry.white_to_move
        /\ in_check = entry.in_check
        /\ move_log = entry.move_log
        /\ undo_calls = make_calls

\* the deadline expired two plies or more below the root, after another root
\* move had been searched to the end
C2_Witness ==
    /\ pc = "done"
    /\ timed_out
    /\ Len(root.examined) >= 2
    /\ make_calls >= Len(root.examined) + 2

\* C3: when the deadline cut the search short, the move returned is never a
\* root move whose own search was cut short (or the never-compared default)
\* while a root move searched to the end has a backed-up score better than the
\* returned move's minimax value.
C3_NoPartialMovePreferred ==
    (pc = "done" /\ result # NoMove) =>
        LET full == {k \in 1 .. Len(root.examined) : ~root.examined[k].cut}
        IN  (\A k \in full : root.examined[k].mv # result) =>
                \A k \in full : root.examined[k].val <= RootMoveValue(result)

\* C4: with depth >= 1 and no deadline check ever true, get_best_move returns
\* the move an unpruned minimax over the same tree picks with the same move
\* order and the same first-best tie rule.
C4_SameMoveAsMinimax ==
    (pc = "done" /\ ~timed_out /\ depth >= 1 /\ result # NoMove) =>
        result = MinimaxMove

\* pruning skipped part of the tree and the move chosen is not the first one
C4_Witness ==
    /\ pc = "done"
    /\ ~timed_out
    /\ depth >= 3
    /\ nodes_expanded < MinimaxNodes(entry.path, depth)
    /\ result # NoMove
    /\ result # EntryMoves[1]

\* C5: every value _alphabeta returns is finite, never the +inf or -inf its
\* running maximum or minimum starts from.
C5_ReturnedValueFinite ==
    pc = "resume" => (ret > -inf /\ ret < inf)

\* C6: from a position without legal moves get_best_move returns None, issues
\* no make_move and no undo_move, and leaves nodes_expanded at 0.
C6_NoMoveSentinel ==
    (pc = "done" /\ EntryMoves = <<>>) =>
        /\ result = NoMove
        /\ make_calls = 0
        /\ undo_calls = 0
        /\ nodes_expanded = 0

\* a call from a position without legal moves, reached after earlier calls
C6_Witness ==
    pc = "done" /\ EntryMoves = <<>> /\ entry.path # <<>> /\ result = NoMove

\* C7: being in check is bad for whoever is in check, for either root colour:
\* when the side to move is in check, the score evaluate_board returns is 2
\* lower than for the same position without check if that side is the root
\* side, and 2 higher if it is the opponent.
C7_CheckIsBadForSideInCheck ==
    (pc = "evaluated" /\ in_check) =>
        ret = EvalScore(board, white_to_move, FALSE, root_is_white)
              + (IF white_to_move = root_is_white THEN -2 ELSE 2)

\* the material values are antisymmetric in colour
MaterialAntisymmetric ==
    \A p \in Pieces : PIECE_VALUES[MirrorPiece(p)] = -PIECE_VALUES[p]

\* C8: with material values antisymmetric in colour, evaluate_board on the
\* colour-mirrored position (pieces recoloured, ranks flipped, the other side
\* to move with the same check status) and the same root side returns the
\* negated score.
C8_MirrorNegatesScore ==
    (pc = "evaluated" /\ MaterialAntisymmetric) =>
        EvalScore(MirrorGrid(board), ~white_to_move, in_check, root_is_white) = -ret

\* a position in check with one king missing and a black pawn on the board
C8_Witness ==
    /\ pc = "evaluated"
    /\ in_check
    /\ ~HasKingOn(board, TRUE)
    /\ HasKingOn(board, FALSE)
    /\ \E sq \in Rows \X Cols : board[sq[1]][sq[2]] = BLACK_PAWN
    /\ ret # 0

C10_CounterNeverDecreases == [][nodes_expanded' >= nodes_expanded]_vars

\* C10, amended: nodes_expanded never decreases while a get_best_move call is
\* running; only the start of a call, which resets it to 0, lowers it.
C10_CounterMonotoneWithinCall ==
    [][pc \notin {"idle", "done"} => nodes_expanded' >= nodes_expanded]_vars

\* a later call on the same agent, two moves applied so far
C10_Witness ==
    pc = "loop" /\ entry.path # <<>> /\ nodes_expanded >= 2

-----------------------------------------------------------------------------
\* Claims C11 - C20

\* a call of get_best_move is running
InSearch == pc \in {"root_loop", "enter", "loop", "resume"}

\* moves applied by the running call and not yet undone
Applied == Len(move_log) - Len(entry.move_log)

\* the step is an _alphabeta entry that returns evaluate_board: on the timeout
\* path, at a stalemate, at depth zero or on the empty-move fallback
C11_Evaluates ==
    /\ pc = "enter"
    /\ pc' = "resume"
    /\ (_out_of_time \/ EnterOutcome(Top.depth) = "static")

\* C11: evaluate_board is a pure read: a step of _alphabeta that returns the
\* static evaluation (timeout path, stalemate, depth zero, empty-move fallback)
\* leaves the board cells, the side to move, the make/undo stack, root_is_white,
\* start_time and nodes_expanded as they were.
C11_EvaluateBoardPureRead ==
    [][C11_Evaluates =>
         /\ ret' = evaluate_board
         /\ board' = board
         /\ white_to_move' = white_to_move
         /\ in_check' = in_check
         /\ move_log' = move_log
         /\ make_calls' = make_calls
         /\ undo_calls' = undo_calls
         /\ root_is_white' = root_is_white
         /\ start_time' = start_time
         /\ nodes_expanded' = nodes_expanded]_vars

\* a stalemate node with plies to spare has just been evaluated, two moves deep
C11_Witness ==
    /\ pc = "resume"
    /\ ~timed_out
    /\ get_game_state = "stalemate"
    /\ Applied = 2
    /\ Applied < depth
    /\ ret = evaluate_board

\* C12: make and undo are strictly LIFO: undo_move is never called more often
\* than make_move, the root and every frame on the stack have at most one move
\* of their own applied, and when an _alphabeta invocation returns the number of
\* applied moves is what it was when the invocation was entered.
C12_MakeUndoLifo ==
    /\ undo_calls <= make_calls
    /\ InSearch => /\ Applied = make_calls - undo_calls
                   /\ pc = "root_loop" => Applied = 0
                   /\ pc \in {"enter", "loop"} => Applied = Len(stack)
                   /\ pc = "resume" => Applied = Len(stack) + 1
    /\ pc = "done" => make_calls = undo_calls

\* a frame two plies down has returned to its caller after earlier undos
C12_Witness ==
    /\ pc = "resume"
    /\ Len(stack) = 2
    /\ Applied = 3
    /\ undo_calls >= 2

\* C13: once a deadline check has come out true during a call, the call applies
\* no further move and opens no further frame: the deadline stays passed, every
\* loop breaks at its next pass, and what is left is undoing and returning.
C13_NoMakeAfterDeadline ==
    [][(InSearch /\ timed_out) =>
         /\ _out_of_time
         /\ timed_out'
         /\ make_calls' = make_calls
         /\ nodes_expanded' = nodes_expanded
         /\ Len(stack') <= Len(stack)
         /\ (pc = "loop" /\ pc' # pc) => (pc' = "resume" /\ ret' = Top.value)
         /\ (pc = "root_loop" /\ pc' # pc) => (pc' = "done" /\ result' = root.best_move)
         /\ (pc = "enter" /\ pc' # pc) => (pc' = "resume" /\ ret' = evaluate_board)]_vars

\* the deadline has been seen to pass while a frame still has moves left to try
C13_Witness ==
    /\ pc = "loop"
    /\ timed_out
    /\ Top.i >= 2
    /\ Top.i <= Len(Top.moves)
    /\ Len(stack) >= 2

\* the first position of the largest returned value among the examined root moves
FirstMax(examined) ==
    CHOOSE k \in 1 .. Len(examined) :
        /\ \A j \in 1 .. Len(examined) : examined[j].val <= examined[k].val
        /\ \A j \in 1 .. (k - 1) : examined[j].val < examined[k].val

\* C14: with no deadline check true, the root moves are examined in exactly the
\* generator's order and get_best_move returns the earliest of them whose
\* returned value is the largest: a later move wins only by a strictly greater
\* value.
C14_EarliestMaximalRootMove ==
    /\ InSearch =>
          /\ Len(root.examined) <= Len(EntryMoves)
          /\ \A k \in 1 .. Len(root.examined) : root.examined[k].mv = EntryMoves[k]
    /\ (pc = "done" /\ ~timed_out /\ result # NoMove) =>
          /\ Len(root.examined) = Len(EntryMoves)
          /\ \A k \in 1 .. Len(EntryMoves) : root.examined[k].mv = EntryMoves[k]
          /\ result = root.examined[FirstMax(root.examined)].mv

\* two root moves tie for the largest value and the generator did not hand
\* them out in ascending order
C14_Witness ==
    /\ pc = "done"
    /\ ~timed_out
    /\ Len(root.examined) = 2
    /\ root.examined[1].val = root.examined[2].val
    /\ EntryMoves[1] > EntryMoves[2]
    /\ result = EntryMoves[1]

\* C15: at a checkmate node whose deadline check was false, _alphabeta returns
\* -1000000 when the side to move is the root side and +1000000 otherwise,
\* applies no move, and does so even at depth zero; at a stalemate node it
\* returns the static evaluation whatever depth remains.
C15_TerminalNodes ==
    [][(pc = "enter" /\ pc' # pc /\ ~_out_of_time) =>
         /\ get_game_state = "checkmate" =>
               /\ pc' = "resume"
               /\ ret' = (IF white_to_move = root_is_white THEN -MATE ELSE MATE)
               /\ move_log' = move_log
               /\ make_calls' = make_calls
         /\ get_game_state = "stalemate" =>
               /\ pc' = "resume"
               /\ ret' = evaluate_board
               /\ move_log' = move_log
               /\ make_calls' = make_calls]_vars

\* a checkmate of the root side met with no depth left has returned -1000000
C15_Witness ==
    /\ pc = "resume"
    /\ ~timed_out
    /\ get_game_state = "checkmate"
    /\ white_to_move = root_is_white
    /\ depth >= 1
    /\ Applied = depth
    /\ ret = -MATE

\* the window the caller handed to the invocation that has just returned
IncomingAlpha == IF stack = <<>> THEN root.alpha ELSE Top.alpha
IncomingBeta == IF stack = <<>> THEN root.beta ELSE Top.beta

\* the depth-limited minimax value of the node the invocation was entered at
ReturnedNodeValue ==
    Minimax(Path, depth - Applied, Applied % 2 = 0, white_to_move, root_is_white)

\* C16: with no deadline check true, a value v returned by _alphabeta that lies
\* strictly inside the incoming window is the exact depth-limited minimax value
\* of the node; v <= alpha is an upper bound on that value and v >= beta a lower
\* bound.
C16_WindowedValueIsMinimax ==
    (pc = "resume" /\ ~timed_out) =>
        /\ (IncomingAlpha < ret /\ ret < IncomingBeta) => ret = ReturnedNodeValue
        /\ ret <= IncomingAlpha => ReturnedNodeValue <= ret
        /\ ret >= IncomingBeta => ReturnedNodeValue >= ret

\* an inner node searched under a window narrowed from below returned a value
\* strictly inside it
C16_Witness ==
    /\ pc = "resume"
    /\ ~timed_out
    /\ get_legal_moves # <<>>
    /\ depth - Applied >= 1
    /\ IncomingAlpha > -inf
    /\ IncomingAlpha < ret
    /\ ret < IncomingBeta

\* C17: within one call nodes_expanded is the number of make_move calls made so
\* far by the call: 0 at its start, one more after each applied move at the
\* root and below, so a call that applied a move returns with a positive count.
C17_CounterCountsMakeMoves ==
    /\ (InSearch \/ pc = "done") => nodes_expanded = make_calls
    /\ (pc = "done" /\ make_calls >= 1) => nodes_expanded > 0

\* a call has returned after applying moves at the root and below it
C17_Witness ==
    /\ pc = "done"
    /\ result # NoMove
    /\ Len(root.examined) >= 2
    /\ make_calls > Len(root.examined)

\* C18: the search is depth-limited for every depth d >= 0: the call never has
\* more than max(d, 1) moves applied at once, and a frame entered with that many
\* applied never reaches its move loop.
C18_DepthLimited ==
    InSearch =>
        /\ Applied <= Max(depth, 1)
        /\ pc = "loop" => Applied < Max(depth, 1)

\* C19: at every entry to _alphabeta the maximizing flag is true exactly when
\* the side to move is the root side, and root_is_white and start_time keep the
\* values taken at the start of the call until it returns; so the sign of a
\* checkmate score agrees with the role of the frame that meets it.
C19_FlagMatchesSideToMove ==
    /\ pc \in {"enter", "loop"} =>
          Top.maximizing = (white_to_move = root_is_white)
    /\ (pc = "enter" /\ get_game_state = "checkmate") =>
          (MateScore = -MATE) = Top.maximizing
    /\ (InSearch \/ pc = "done") =>
          /\ root_is_white = entry.white_to_move
          /\ start_time = entry.start_time

\* black is the root side and a maximizing frame two plies down meets a mate
C19_Witness ==
    /\ pc = "enter"
    /\ ~root_is_white
    /\ Len(stack) = 2
    /\ Top.maximizing
    /\ get_game_state = "checkmate"

\* C20: every _alphabeta invocation is entered with alpha < beta, whatever the
\* tree and wherever the deadline passes: a frame in its move loop still has
\* alpha < beta, and a root loop whose alpha has reached +inf applies no
\* further move.
C20_WindowNonEmpty ==
    /\ pc \in {"enter", "loop"} =>
          \A k \in 1 .. Len(stack) : stack[k].alpha < stack[k].beta
    /\ InSearch => root.alpha <= root.beta
    /\ (pc = "root_loop" /\ root.alpha >= root.beta) =>
          (root.i > Len(root.legal_moves) \/ LoopDeadline)

\* the root's alpha has reached +inf with root moves still to come
C20_Witness ==
    /\ pc = "root_loop"
    /\ root.alpha = inf
    /\ root.i <= Len(root.legal_moves)

=============================================================================
